---- MODULE Spec2Model ----
(***************************************************************************)
(* MindFeed: multi-source aggregation (contentService.ts), enrichment and  *)
(* merge (geminiService part of hnService.ts), the source x tag filter     *)
(* engine, the load cycles and the preferences of App.tsx, and the edits   *)
(* of PreferencePanel.                                                     *)
(*                                                                         *)
(* JavaScript values are modelled as follows.                              *)
(*   - a story id (string | number) is a pair <<"num", n>> or <<"str", s>>;*)
(*   - an object is a record whose DOMAIN is the set of its own            *)
(*     properties, so a missing property is a missing field;               *)
(*   - an array is a sequence.                                             *)
(***************************************************************************)
EXTENDS Integers, Sequences, FiniteSets, TLC

VARIABLES
  an_stories,    \* analyzeStories: the `stories` argument
  an_response,   \* analyzeStories: what ai.models.generateContent does
  an_result,     \* analyzeStories: the resolved value
  an_pc,         \* "call" before the call, "done" after it resolved
  hn_limit,      \* fetchHNStories: the `limit` argument
  hn_pc,         \* fetchHNStories: "ids", "details" or "done"
  hn_det,        \* fetchHNStories: storyPromises, as Promise.all left them
  hn_promise,    \* the promise fetchHNStories returned
  hn_failed,     \* history: "fetch" or "mapping" once fetchHNStories failed
  rss_promise,   \* per feed, the promise fetchRSSFeed returned
  rss_failed,    \* history: per feed, the bridge call failed
  agg_promise,   \* the promise fetchAllContent returned
  loading,           \* App: useState(false)
  enrichedStories,   \* App: useState<EnrichedStory[]>([])
  selectedSources,   \* App: useState(allSources.map(s => s.name))
  selectedTags,      \* App: useState<string[]>([])
  cycles,            \* App: the loadDigest calls in flight
  last,              \* history: the selection handleInvertSourceSelection replaced
  settled,           \* history: the load cycle that completed last
  preferences,       \* App: useState<UserPreferences>(initializer)
  feedbackMap,       \* App: useState<Record<id, 'liked' | 'disliked'>>({})
  isLearning,        \* App: useState(false)
  refining,          \* App: the refinePreferences calls in flight
  id_prefix,     \* generateId: the `prefix` argument of the calls
  id_prefix2,    \* generateId: the prefix of the calls compared with them
  id_str,        \* generateId: the `str` argument, as UTF-16 code units
  id_out         \* per round of calls, the tokens returned for both prefixes

enrichVars == <<an_stories, an_response, an_result, an_pc>>

aggVars ==
  <<hn_limit, hn_pc, hn_det, hn_promise, hn_failed, rss_promise, rss_failed,
    agg_promise>>

appVars ==
  <<loading, enrichedStories, selectedSources, selectedTags, cycles, last,
    settled>>

prefVars == <<preferences, feedbackMap, isLearning, refining>>

idVars == <<id_prefix, id_prefix2, id_str, id_out>>

vars ==
  <<an_stories, an_response, an_result, an_pc,
    hn_limit, hn_pc, hn_det, hn_promise, hn_failed, rss_promise, rss_failed,
    agg_promise,
    loading, enrichedStories, selectedSources, selectedTags, cycles, last,
    settled, preferences, feedbackMap, isLearning, refining,
    id_prefix, id_prefix2, id_str, id_out>>

-----------------------------------------------------------------------------
(* Bounds *)

MaxStories == 2     \* longest RawStory batch handed to analyzeStories
MaxAnn == 2         \* longest annotation array the reasoning service returns
NumFeeds == 2       \* configured feeds (BLOG_FEEDS holds 11)
MaxItems == 3       \* longest item array a feed bridge returns
MaxIds == 2         \* longest id list the ranked API returns
MaxCycles == 2      \* loadDigest calls in flight at once
MaxBatch == 2       \* longest batch a load cycle aggregates
MaxStrLen == 2      \* longest string drawn for generateId
MaxCalls == 2       \* rounds of generateId calls on the same arguments
NumTopics == 1      \* default topics (DEFAULT_PREFERENCES holds 8)

-----------------------------------------------------------------------------
(* Generic helpers *)

SeqsUpTo(S, n) == UNION {[1..k -> S] : k \in 0..n}

Range(s) == {s[i] : i \in 1..Len(s)}

-----------------------------------------------------------------------------
(* geminiService: analyzeStories *)

\* String(x) for an id value
String(v) == IF v[1] = "num" THEN ToString(v[2]) ELSE v[2]

\* String(a.id): a missing property reads as undefined
StringOfId(a) == IF "id" \in DOMAIN a THEN String(a.id) ELSE "undefined"

NO_SUMMARY == "no-summary"          \* "暂无简述"
NO_ABSTRACT == "no-abstract"        \* "暂无详细摘要"
DEFAULT_SCORE == 10
DEFAULT_REASON == "popular-tech"    \* "热门科技内容"

FB_SUMMARY == "analysis-unavailable"   \* "AI 分析暂不可用"
FB_ABSTRACT == "no-abstract-available" \* "无法获取详细摘要。"
FB_SCORE == 0
FB_REASON == "system-busy"             \* "系统繁忙"

\* analysisResults.find(a => String(a.id) === String(story.id)), scanning
\* from index i: the index of the first match, 0 when there is none, and -1
\* when the scan reads `.id` of a null element (TypeError) before a match.
RECURSIVE FindFrom(_, _, _)
FindFrom(arr, story, i) ==
  IF i > Len(arr) THEN 0
  ELSE IF arr[i].t = "null" THEN -1
  ELSE IF StringOfId(arr[i]) = String(story.id) THEN i
  ELSE FindFrom(arr, story, i + 1)

Find(arr, story) == FindFrom(arr, story, 1)

\* analysis?.f || dflt, for a string or number property
OrElse(analysis, f, dflt, falsy) ==
  IF f \in DOMAIN analysis /\ analysis[f] # falsy THEN analysis[f] ELSE dflt

MergeStory_spread(story, analysis) ==
  [aiSummary |-> OrElse(analysis, "aiSummary", NO_SUMMARY, ""),
   aiAbstract |-> OrElse(analysis, "aiAbstract", NO_ABSTRACT, ""),
   relevanceScore |-> OrElse(analysis, "relevanceScore", DEFAULT_SCORE, 0),
   recommendationReason |->
       OrElse(analysis, "recommendationReason", DEFAULT_REASON, ""),
   tags |-> IF "tags" \in DOMAIN analysis THEN analysis.tags ELSE <<>>]
  @@ (IF "id" \in DOMAIN analysis THEN [id |-> analysis.id] ELSE <<>>)
  @@ story

\* the object literal of the merge step; `analysis` is [t |-> "undefined"]
\* when find returned undefined
MergeStory(story, analysis) ==
  [aiSummary |-> OrElse(analysis, "aiSummary", NO_SUMMARY, ""),
   aiAbstract |-> OrElse(analysis, "aiAbstract", NO_ABSTRACT, ""),
   relevanceScore |-> OrElse(analysis, "relevanceScore", DEFAULT_SCORE, 0),
   recommendationReason |->
       OrElse(analysis, "recommendationReason", DEFAULT_REASON, ""),
   tags |-> IF "tags" \in DOMAIN analysis THEN analysis.tags ELSE <<>>]
  @@ story

Undefined == [t |-> "undefined"]

FallbackStory_filler(s) ==
  [aiSummary |-> NO_SUMMARY,
   aiAbstract |-> NO_ABSTRACT,
   relevanceScore |-> DEFAULT_SCORE,
   recommendationReason |-> DEFAULT_REASON,
   tags |-> <<>>]
  @@ s

\* the catch block
FallbackStory(s) ==
  [aiSummary |-> FB_SUMMARY,
   aiAbstract |-> FB_ABSTRACT,
   relevanceScore |-> FB_SCORE,
   recommendationReason |-> FB_REASON,
   tags |-> <<>>]
  @@ s

MergeOne_fallback(arr, story) ==
  LET k == Find(arr, story)
  IN IF k = 0 THEN FallbackStory(story) ELSE MergeStory(story, arr[k])

MergeOne(arr, story) ==
  LET k == Find(arr, story)
  IN MergeStory(story, IF k = 0 THEN Undefined ELSE arr[k])

Fallback_drop(stories) == <<>>

Fallback(stories) == [i \in 1..Len(stories) |-> FallbackStory(stories[i])]

CompareRelevance_asc(a, b) == a.relevanceScore - b.relevanceScore

\* the comparator (a, b) => b.relevanceScore - a.relevanceScore
CompareRelevance(a, b) == b.relevanceScore - a.relevanceScore

\* enrichedStories.sort(comparator). Array.prototype.sort is stable: x goes
\* after every element that does not compare greater than it.
RECURSIVE InsertStory(_, _)
InsertStory(s, x) ==
  IF s = <<>> THEN <<x>>
  ELSE IF CompareRelevance(Head(s), x) > 0 THEN <<x>> \o s
  ELSE <<Head(s)>> \o InsertStory(Tail(s), x)

RECURSIVE SortStories(_)
SortStories(s) ==
  IF s = <<>> THEN <<>>
  ELSE InsertStory(SortStories(SubSeq(s, 1, Len(s) - 1)), s[Len(s)])

\* the try block reaches the merge step only with a text that parses
ThrowsBeforeMerge(resp) ==
  \/ resp.kind = "throw"        \* generateContent rejects
  \/ resp.kind = "notext"       \* !text
  \/ resp.kind = "unparsable"   \* JSON.parse throws

\* the merge step throws: find is not a function, or a null element is read
MergeThrows(stories, value) ==
  \/ value.t # "array"
  \/ \E i \in 1..Len(stories) : Find(value.items, stories[i]) = -1

analyzeStories(stories, resp) ==
  IF Len(stories) = 0 THEN <<>>
  ELSE IF ThrowsBeforeMerge(resp) THEN Fallback(stories)
  ELSE IF MergeThrows(stories, resp.value) THEN Fallback(stories)
  ELSE SortStories([i \in 1..Len(stories) |->
                      MergeOne(resp.value.items, stories[i])])

-----------------------------------------------------------------------------
(* contentService: registry and generateId *)

\* BLOG_FEEDS, by name; the model configures the first NumFeeds of them
FEED_NAMES ==
  <<"Andrej Karpathy", "Kexue (Su Jianlin)", "OpenAI Blog",
    "Hugging Face Blog", "Google DeepMind", "Qwen Blog", "Synced Review",
    "IEEE Robotics", "BAIR (Berkeley)", "MIT Robotics", "NVIDIA Blog">>

BLOG_FEEDS == [f \in 1..NumFeeds |-> [name |-> FEED_NAMES[f]]]

HN_NAME == "Hacker News"

\* ALL_SOURCES_CONFIG / getAllSources(), as the list of names
ALL_SOURCES_CONFIG ==
  <<HN_NAME>> \o [f \in 1..NumFeeds |-> BLOG_FEEDS[f].name]

\* A 32-bit integer is a pair <<hi, lo>> of 16-bit words (two's complement).
W16 == 65536

\* hash << 5
Shl5(h) == <<(h[1] * 32 + (h[2] * 32) \div W16) % W16, (h[2] * 32) % W16>>

\* a - b, wrapped to 32 bits
Sub32(a, b) ==
  LET borrow == IF a[2] < b[2] THEN 1 ELSE 0
  IN <<(a[1] - b[1] - borrow + 2 * W16) % W16, (a[2] - b[2] + W16) % W16>>

\* a + char, wrapped to 32 bits
AddChar32(a, c) == <<(a[1] + (a[2] + c) \div W16) % W16, (a[2] + c) % W16>>

\* Math.abs of a 32-bit integer, as an unsigned magnitude (2^31 for -2^31)
Abs32(h) ==
  IF h[1] < 32768 THEN h
  ELSE <<(W16 - 1 - h[1] + (IF h[2] = 0 THEN 1 ELSE 0)) % W16,
         (W16 - h[2]) % W16>>

HEX_DIGITS ==
  <<"0", "1", "2", "3", "4", "5", "6", "7",
    "8", "9", "a", "b", "c", "d", "e", "f">>

RECURSIVE HexNat(_)
HexNat(n) ==
  IF n < 16 THEN HEX_DIGITS[n + 1]
  ELSE HexNat(n \div 16) \o HEX_DIGITS[(n % 16) + 1]

Hex4(n) ==
  HEX_DIGITS[(n \div 4096) + 1] \o HEX_DIGITS[((n \div 256) % 16) + 1]
    \o HEX_DIGITS[((n \div 16) % 16) + 1] \o HEX_DIGITS[(n % 16) + 1]

\* (magnitude).toString(16)
ToString16(m) == IF m[1] = 0 THEN HexNat(m[2]) ELSE HexNat(m[1]) \o Hex4(m[2])

\* the loop body: hash = ((hash << 5) - hash) + char; hash = hash & hash
HashStep(hash, char) == AddChar32(Sub32(Shl5(hash), hash), char)

RECURSIVE HashLoop(_, _, _)
HashLoop(str, i, hash) ==
  IF i > Len(str) THEN hash
  ELSE HashLoop(str, i + 1, HashStep(hash, str[i]))

\* str is a string given as the sequence of its UTF-16 code units
generateId_noPrefix(prefix, str) ==
  IF Len(str) = 0 THEN "0"
  ELSE "-" \o ToString16(Abs32(HashLoop(str, 1, <<0, 0>>)))

generateId(prefix, str) ==
  IF Len(str) = 0 THEN prefix \o "0"
  ELSE prefix \o "-" \o ToString16(Abs32(HashLoop(str, 1, <<0, 0>>)))

-----------------------------------------------------------------------------
(* contentService: fetchRSSFeed *)

\* { name: obj[key] } when obj has the property, {} otherwise
Prop(name, obj, key) ==
  IF key \in DOMAIN obj THEN [x \in {name} |-> obj[key]] ELSE <<>>

\* a string property (a sequence of code units) that is present and not ""
Truthy(obj, key) == key \in DOMAIN obj /\ obj[key] # <<>>

\* item.link || item.title is undefined (so that generateId throws); reading
\* a property of a null item throws as well
ItemThrows(item) ==
  \/ item.t = "null"
  \/ ~Truthy(item, "link") /\ "title" \notin DOMAIN item

IdSource(item) == IF Truthy(item, "link") THEN item.link ELSE item.title

MapItem(config, item) ==
  [id |-> <<"str", generateId("rss", IdSource(item))>>, source |-> config.name]
  @@ Prop("title", item, "title") @@ Prop("url", item, "link")
  @@ Prop("publishDate", item, "pubDate") @@ Prop("author", item, "author")

RSS_CAP == 2

\* A settled promise
Fulfilled(v) == [st |-> "fulfilled", v |-> v]
Rejected == [st |-> "rejected"]
Pending == [st |-> "pending"]

\* how a try block ends
Throw == [ok |-> FALSE]
Return(v) == [ok |-> TRUE, v |-> v]

Min(a, b) == IF a < b THEN a ELSE b

\* the body of the try block
RSSBody(config, out) ==
  IF out.kind \in {"network", "parse"} THEN Throw
  ELSE IF out.data.t = "null" THEN Throw
  ELSE IF out.data.status = "ok" /\ out.data.items.t = "array"
    THEN LET items == out.data.items.v
         IN IF \E i \in 1..Len(items) : ItemThrows(items[i]) THEN Throw
            ELSE Return(SubSeq([i \in 1..Len(items) |->
                                  MapItem(config, items[i])],
                               1, Min(Len(items), RSS_CAP)))
    ELSE Return(<<>>)

Catch_rethrow(body) == IF body.ok THEN Fulfilled(body.v) ELSE Rejected

\* try { ... } catch { return [] }: what the adapter's promise settles to
Catch(body) == IF body.ok THEN Fulfilled(body.v) ELSE Fulfilled(<<>>)

fetchRSSFeed(config, out) == Catch(RSSBody(config, out))

-----------------------------------------------------------------------------
(* contentService: fetchHNStories *)

HN_LIMIT == 12    \* fetchAllContent calls fetchHNStories(12)

HN_DEFAULT_LIMIT == 10    \* fetchHNStories = async (limit: number = 10)

\* ids.slice(0, limit) throws unless ids is an array
IdsThrow(out) == out.kind \in {"network", "parse"} \/ out.data.t # "array"

TopIds_all(out, limit) == out.data.v

\* ids.slice(0, limit)
TopIds(out, limit) == SubSeq(out.data.v, 1, Min(Len(out.data.v), limit))

\* s && s.type === 'story' && s.url
IsStoryWithUrl(s) == s.t = "obj" /\ s.type = "story" /\ Truthy(s, "url")

\* new Date(s.time * 1000).toISOString() throws a RangeError on an invalid
\* date, which is what an item without a numeric time gives
DateThrows(s) == "time" \notin DOMAIN s

\* epoch seconds to an ISO instant
ToISOString(ms) == "iso:" \o ToString(ms)

MapHN(s) ==
  [id |-> <<"str", "hn-" \o ToString(s.id)>>,
   url |-> s.url,
   source |-> HN_NAME,
   publishDate |-> ToISOString(s.time * 1000)]
  @@ Prop("title", s, "title") @@ Prop("author", s, "by")
  @@ Prop("score", s, "score")

\* the part of the try block after `await Promise.all(storyPromises)`
HNBody(stories) ==
  LET kept == SelectSeq(stories, IsStoryWithUrl)
  IN IF \E i \in 1..Len(kept) : DateThrows(kept[i]) THEN Throw
     ELSE Return([i \in 1..Len(kept) |-> MapHN(kept[i])])

-----------------------------------------------------------------------------
(* contentService: fetchAllContent *)

RECURSIVE Flat(_)
Flat(lists) == IF lists = <<>> THEN <<>> ELSE Head(lists) \o Flat(Tail(lists))

\* [...allBlogStories, ...hnStories]
Combined_blogsOnly(hnStories, blogStories) == Flat(blogStories)

Combined(hnStories, blogStories) == Flat(blogStories) \o hnStories

\* combined.sort(() => Math.random() - 0.5): the comparator is random, so the
\* result is some reordering of the list
Shuffles(combined) ==
  {[i \in 1..Len(combined) |-> combined[p[i]]]
     : p \in Permutations(1..Len(combined))}

-----------------------------------------------------------------------------
(* Inputs of the enrichment runs *)

Id_a == <<"str", "a">>
Id_s1 == <<"str", "1">>
Id_n1 == <<"num", 1>>

StoryPool ==
  {[id |-> Id_a, title |-> "T-a", url |-> "u-a", source |-> "Hacker News"],
   [id |-> Id_s1, title |-> "T-1", url |-> "u-1", source |-> "OpenAI Blog"],
   [id |-> Id_n1, title |-> "T-n", url |-> "u-n", source |-> "Hacker News",
    score |-> 7]}

AnnIds == {Id_a, Id_s1, Id_n1}
AnnScores == {0, 5, 50}

\* annotation objects: complete ones, ones that lack the score, and bare ones
AnnPool ==
  {[t |-> "obj", id |-> i, aiSummary |-> "S", aiAbstract |-> "A",
    relevanceScore |-> sc, recommendationReason |-> "R", tags |-> <<"x">>]
     : i \in AnnIds, sc \in AnnScores}
  \cup {[t |-> "obj", id |-> i, aiSummary |-> "", aiAbstract |-> "A",
         recommendationReason |-> "R", tags |-> <<>>] : i \in AnnIds}
  \cup {[t |-> "obj", id |-> i, relevanceScore |-> 50] : i \in AnnIds}
  \cup {[t |-> "obj", relevanceScore |-> 50]}

Null == [t |-> "null"]

Responses ==
  {[kind |-> "throw"], [kind |-> "notext"], [kind |-> "unparsable"],
   [kind |-> "json", value |-> [t |-> "other"]]}
  \cup {[kind |-> "json", value |-> [t |-> "array", items |-> s]]
          : s \in SeqsUpTo(AnnPool \cup {Null}, MaxAnn)}

-----------------------------------------------------------------------------------------------------------------------------------------------------
(* Inputs of the aggregation runs *)

Str_Aa == <<65, 97>>     \* "Aa"

E_LINK == [t |-> "obj", link |-> Str_Aa, title |-> <<84>>, pubDate |-> "d1",
           author |-> "au"]
E_BARE == [t |-> "obj", pubDate |-> "d2"]   \* neither link nor title

EntryPool == {E_LINK, E_BARE}

FeedOutcomes ==
  {[kind |-> "network"], [kind |-> "parse"],
   [kind |-> "data", data |-> [t |-> "null"]],
   [kind |-> "data",
    data |-> [t |-> "obj", status |-> "error",
              items |-> [t |-> "array", v |-> <<>>]]],
   [kind |-> "data",
    data |-> [t |-> "obj", status |-> "ok", items |-> [t |-> "other"]]]}
  \cup {[kind |-> "data",
         data |-> [t |-> "obj", status |-> "ok",
                   items |-> [t |-> "array", v |-> s]]]
          : s \in SeqsUpTo(EntryPool, MaxItems)}

\* the lists of distinct item ids the ranked API may rank
IdLists ==
  {s \in SeqsUpTo(1..MaxIds, MaxIds) :
     \A i, j \in 1..Len(s) : i < j => s[i] < s[j]}

IdsOutcomes ==
  {[kind |-> "network"], [kind |-> "parse"],
   [kind |-> "data", data |-> [t |-> "other"]]}
  \cup {[kind |-> "data", data |-> [t |-> "array", v |-> s]] : s \in IdLists}

HNItem(id) ==
  [t |-> "obj", id |-> id, type |-> "story", url |-> <<117>>, title |-> <<84>>,
   by |-> "b", score |-> 3, time |-> 1]

\* what the detail fetch of item `id` may give
DetailOutcomes(id) ==
  {[kind |-> "network"], [kind |-> "parse"],
   [kind |-> "data", data |-> Null],
   [kind |-> "data", data |-> HNItem(id)],
   [kind |-> "data", data |-> [t |-> "obj", id |-> id, type |-> "comment"]],
   [kind |-> "data",
    data |-> [t |-> "obj", id |-> id, type |-> "story", title |-> <<84>>]],
   [kind |-> "data",
    data |-> [t |-> "obj", id |-> id, type |-> "story", url |-> <<117>>]]}

-----------------------------------------------------------------------------
(* types.ts, App.tsx, PreferencePanel: the preferences *)

TOPIC_NAMES ==
  <<"robotics", "embodied-ai", "llm", "ai-agents", "ai-coding",
    "architecture", "cpp", "news">>

\* DEFAULT_PREFERENCES, with the first NumTopics topics
DEFAULT_PREFERENCES ==
  [topics |-> [k \in 1..NumTopics |-> TOPIC_NAMES[k]],
   blockedKeywords |-> <<"politics", "gossip", "vulgar">>,
   complexityLevel |-> "expert",
   tone |-> "neutral",
   additionalContext |-> "ctx-default"]

\* the useState initializer: `saved` is what localStorage.getItem returned,
\* null or a string with what JSON.parse does on it
InitialPreferences(saved) ==
  IF saved.t = "null" THEN DEFAULT_PREFERENCES
  ELSE IF saved.empty THEN DEFAULT_PREFERENCES
  ELSE IF ~saved.json.ok THEN DEFAULT_PREFERENCES
  ELSE saved.json.v

\* { ...prefs, [field]: value }
With(prefs, field, value) == [f \in {field} |-> value] @@ prefs

\* the template literal of systemInstruction calls .join on
\* preferences.topics and preferences.blockedKeywords, before the try block
PromptThrows(prefs) ==
  "topics" \notin DOMAIN prefs \/ "blockedKeywords" \notin DOMAIN prefs

\* refinePreferences once its call has settled: response.text ||
\* currentPrefs.additionalContext, and the same context from the catch block
refinePreferences(currentContext, out) ==
  IF out.kind = "throw" THEN currentContext
  ELSE IF out.text = "" THEN currentContext
  ELSE out.text

\* a full preferences object saved by an earlier session, and one saved
\* without blockedKeywords, complexityLevel and tone
SAVED_PREFERENCES ==
  [DEFAULT_PREFERENCES EXCEPT !.additionalContext = "ctx-saved"]

PARTIAL_PREFERENCES ==
  [topics |-> DEFAULT_PREFERENCES.topics, additionalContext |-> "ctx-saved"]

\* values of localStorage on which the first render completes
StoredValues ==
  {[t |-> "null"],
   [t |-> "string", empty |-> TRUE, json |-> Throw],
   [t |-> "string", empty |-> FALSE, json |-> Throw],
   [t |-> "string", empty |-> FALSE, json |-> Return(SAVED_PREFERENCES)],
   [t |-> "string", empty |-> FALSE, json |-> Return(PARTIAL_PREFERENCES)]}

RefineOutcomes ==
  {[kind |-> "throw"], [kind |-> "text", text |-> ""],
   [kind |-> "text", text |-> "ctx-refined"]}

-----------------------------------------------------------------------------
(* Idle values of the parts a specification does not run *)

PrefIdle ==
  /\ preferences = DEFAULT_PREFERENCES
  /\ feedbackMap = <<>>
  /\ isLearning = FALSE
  /\ refining = {}

EnrichIdle ==
  /\ an_stories = <<>>
  /\ an_response = [kind |-> "throw"]
  /\ an_result = <<>>
  /\ an_pc = "idle"

AggIdle ==
  /\ hn_limit = HN_LIMIT
  /\ hn_pc = "idle"
  /\ hn_det = <<>>
  /\ hn_promise = Pending
  /\ hn_failed = "no"
  /\ rss_promise = <<>>
  /\ rss_failed = <<>>
  /\ agg_promise = Pending

IdIdle ==
  /\ id_prefix = ""
  /\ id_prefix2 = ""
  /\ id_str = <<>>
  /\ id_out = <<>>

AppIdle ==
  /\ loading = FALSE
  /\ enrichedStories = <<>>
  /\ selectedSources = <<>>
  /\ selectedTags = <<>>
  /\ cycles = <<>>
  /\ last = [op |-> "none"]
  /\ settled = [c |-> 0]

-----------------------------------------------------------------------------
(* SpecEnrich: one analyzeStories call on every bounded input *)

InitEnrich ==
  /\ an_stories \in SeqsUpTo(StoryPool, MaxStories)
  /\ an_response \in Responses
  /\ an_result = <<>>
  /\ an_pc = "call"
  /\ AggIdle
  /\ AppIdle
  /\ PrefIdle
  /\ IdIdle

Analyze ==
  /\ an_pc = "call"
  /\ an_result' = analyzeStories(an_stories, an_response)
  /\ an_pc' = "done"
  /\ UNCHANGED <<an_stories, an_response>>
  /\ UNCHANGED <<aggVars, appVars, prefVars, idVars>>

NextEnrich == Analyze

SpecEnrich == InitEnrich /\ [][NextEnrich]_vars

-----------------------------------------------------------------------------
(* SpecAgg: one fetchAllContent call; its adapters settle in any order *)

\* fetchAllContent has called fetchHNStories(12) and every fetchRSSFeed, and
\* awaits Promise.all
InitAgg ==
  /\ EnrichIdle
  /\ AppIdle
  /\ PrefIdle
  /\ IdIdle
  /\ hn_limit = HN_LIMIT
  /\ hn_pc = "ids"
  /\ hn_det = <<>>
  /\ hn_promise = Pending
  /\ hn_failed = "no"
  /\ rss_promise = [f \in 1..NumFeeds |-> Pending]
  /\ rss_failed = [f \in 1..NumFeeds |-> FALSE]
  /\ agg_promise = Pending

\* the topstories fetch settles; fetchHNStories runs up to Promise.all
HNIdsSettle ==
  /\ hn_pc = "ids"
  /\ \E out \in IdsOutcomes :
       IF IdsThrow(out)
         THEN /\ hn_promise' = Catch(Throw)
              /\ hn_failed' = "fetch"
              /\ hn_pc' = "done"
              /\ UNCHANGED hn_det
         ELSE LET topIds == TopIds(out, hn_limit)
              IN IF topIds = <<>>
                   THEN /\ hn_promise' = Catch(HNBody(<<>>))
                        /\ hn_pc' = "done"
                        /\ UNCHANGED <<hn_det, hn_failed>>
                   ELSE /\ hn_det' = [i \in 1..Len(topIds) |->
                                        [st |-> "pending", id |-> topIds[i]]]
                        /\ hn_pc' = "details"
                        /\ UNCHANGED <<hn_promise, hn_failed>>
  /\ UNCHANGED <<hn_limit, rss_promise, rss_failed, agg_promise>>
  /\ UNCHANGED <<enrichVars, appVars, prefVars, idVars>>

\* some fetched story that has a url has no time to convert
HNMappingFailure(items) ==
  \E j \in 1..Len(items) :
    /\ items[j].t = "obj"
    /\ items[j].type = "story"
    /\ "url" \in DOMAIN items[j]
    /\ "time" \notin DOMAIN items[j]

\* one item fetch settles; Promise.all rejects on the first failure and
\* fulfils when every item has arrived
HNDetailSettle(i) ==
  /\ hn_pc = "details"
  /\ hn_det[i].st = "pending"
  /\ \E out \in DetailOutcomes(hn_det[i].id) :
       IF out.kind # "data"
         THEN /\ hn_det' = [hn_det EXCEPT ![i] = Rejected]
              /\ hn_promise' = Catch(Throw)
              /\ hn_failed' = "fetch"
              /\ hn_pc' = "done"
         ELSE LET det == [hn_det EXCEPT ![i] = Fulfilled(out.data)]
                  items == [j \in 1..Len(det) |-> det[j].v]
              IN /\ IF \A j \in 1..Len(det) : det[j].st = "fulfilled"
                      THEN /\ hn_det' = det
                           /\ hn_promise' = Catch(HNBody(items))
                           /\ hn_failed' =
                                IF HNMappingFailure(items) THEN "mapping"
                                ELSE "no"
                           /\ hn_pc' = "done"
                      ELSE /\ hn_det' = det
                           /\ UNCHANGED <<hn_promise, hn_pc, hn_failed>>
  /\ UNCHANGED <<hn_limit, rss_promise, rss_failed, agg_promise>>
  /\ UNCHANGED <<enrichVars, appVars, prefVars, idVars>>

\* history: the bridge does not deliver an array of well-formed entries with
\* status ok
FeedFailure(out) ==
  \/ out.kind # "data"
  \/ out.data.t = "null"
  \/ out.data.status # "ok"
  \/ out.data.items.t # "array"
  \/ \E k \in 1..Len(out.data.items.v) :
       LET e == out.data.items.v[k]
       IN e.t = "null" \/ ("link" \notin DOMAIN e /\ "title" \notin DOMAIN e)

\* the bridge call of feed f settles and fetchRSSFeed runs to its end
RSSSettle(f) ==
  /\ rss_promise[f].st = "pending"
  /\ \E out \in FeedOutcomes :
       /\ rss_promise' =
            [rss_promise EXCEPT ![f] = fetchRSSFeed(BLOG_FEEDS[f], out)]
       /\ rss_failed' = [rss_failed EXCEPT ![f] = FeedFailure(out)]
  /\ UNCHANGED <<hn_limit, hn_pc, hn_det, hn_promise, hn_failed, agg_promise>>
  /\ UNCHANGED <<enrichVars, appVars, prefVars, idVars>>

AllPromises == <<hn_promise>> \o rss_promise

\* Promise.all settles and fetchAllContent runs to its end
AggSettle ==
  /\ hn_pc # "idle"
  /\ agg_promise.st = "pending"
  /\ IF \E k \in 1..Len(AllPromises) : AllPromises[k].st = "rejected"
       THEN agg_promise' = Rejected
       ELSE /\ \A k \in 1..Len(AllPromises) : AllPromises[k].st = "fulfilled"
            /\ \E combined \in
                  Shuffles(Combined(hn_promise.v,
                                    [f \in 1..NumFeeds |-> rss_promise[f].v])) :
                 agg_promise' = Fulfilled(combined)
  /\ UNCHANGED <<hn_limit, hn_pc, hn_det, hn_promise, hn_failed, rss_promise,
               rss_failed>>
  /\ UNCHANGED <<enrichVars, appVars, prefVars, idVars>>

NextAgg ==
  \/ HNIdsSettle
  \/ \E i \in 1..Len(hn_det) : HNDetailSettle(i)
  \/ \E f \in 1..NumFeeds : RSSSettle(f)
  \/ AggSettle

SpecAgg == InitAgg /\ [][NextAgg]_vars

-----------------------------------------------------------------------------
(* fetchHNStories(limit) called on its own *)

\* the limits drawn: some that cut the id list, the default and the one
\* fetchAllContent passes
Limits == 0..(MaxIds - 1) \cup {HN_DEFAULT_LIMIT, HN_LIMIT}

\* fetchHNStories(limit) awaits the topstories fetch
InitHN ==
  /\ EnrichIdle
  /\ AppIdle
  /\ PrefIdle
  /\ IdIdle
  /\ hn_limit \in Limits
  /\ hn_pc = "ids"
  /\ hn_det = <<>>
  /\ hn_promise = Pending
  /\ hn_failed = "no"
  /\ rss_promise = <<>>
  /\ rss_failed = <<>>
  /\ agg_promise = Pending

NextHN ==
  \/ HNIdsSettle
  \/ \E i \in 1..Len(hn_det) : HNDetailSettle(i)

SpecHN == InitHN /\ [][NextHN]_vars

-----------------------------------------------------------------------------
(* SpecId: generateId called repeatedly on every bounded input *)

Prefixes == {"rss", "hn", "rss-"}

Alphabet == {65, 66, 97, 65535}     \* "A", "B", "a" and the largest code unit

\* a string long enough for the hash to leave 32 bits
Str_Long == <<65535, 65535, 65535, 65535, 65535, 65535>>

StrPool == SeqsUpTo(Alphabet, MaxStrLen) \cup {Str_Long}

InitId ==
  /\ EnrichIdle
  /\ AggIdle
  /\ AppIdle
  /\ PrefIdle
  /\ id_prefix \in Prefixes
  /\ id_prefix2 \in Prefixes
  /\ id_str \in StrPool
  /\ id_out = <<>>

\* one more call for each of the two prefixes
GenerateIds ==
  /\ Len(id_out) < MaxCalls
  /\ id_out' = Append(id_out, <<generateId(id_prefix, id_str),
                                generateId(id_prefix2, id_str)>>)
  /\ UNCHANGED <<id_prefix, id_prefix2, id_str>>
  /\ UNCHANGED <<enrichVars, aggVars, appVars, prefVars>>

NextId == GenerateIds

SpecId == InitId /\ [][NextId]_vars

-----------------------------------------------------------------------------
(* App.tsx: the filter engine *)

\* arr.includes(x)
Includes(arr, x) == \E i \in 1..Len(arr) : arr[i] = x

Toggled_removeOnly(prev, v) == SelectSeq(prev, LAMBDA s : s # v)

\* prev => prev.includes(v) ? prev.filter(s => s !== v) : [...prev, v]
Toggled(prev, v) ==
  IF Includes(prev, v) THEN SelectSeq(prev, LAMBDA s : s # v)
  ELSE Append(prev, v)

Inverted_present(allNames, prev) ==
  SelectSeq(allNames,
            LAMBDA n : ~Includes(prev, n)
                       /\ \E i \in 1..Len(enrichedStories) :
                            enrichedStories[i].source = n)

\* allNames.filter(n => !prev.includes(n))
Inverted(allNames, prev) == SelectSeq(allNames, LAMBDA n : ~Includes(prev, n))

\* sourceCounts: every registered name starts at 0, and each enriched story
\* of a registered source adds one
RECURSIVE CountSources(_, _)
CountSources(stories, counts) ==
  IF stories = <<>> THEN counts
  ELSE LET src == Head(stories).source
       IN CountSources(Tail(stories),
                       IF src \in DOMAIN counts
                         THEN [counts EXCEPT ![src] = @ + 1]
                         ELSE counts)

sourceCounts_selected(stories) ==
  CountSources(SelectSeq(stories,
                         LAMBDA x : Includes(selectedSources, x.source)),
               [n \in Range(ALL_SOURCES_CONFIG) |-> 0])

sourceCounts(stories) ==
  CountSources(stories, [n \in Range(ALL_SOURCES_CONFIG) |-> 0])

storiesFilteredBySource(stories, selSources) ==
  SelectSeq(stories, LAMBDA story : Includes(selSources, story.source))

\* tagCounts[tag] = (tagCounts[tag] || 0) + 1 on an object whose entries keep
\* their insertion order: a sequence of <<tag, count>> entries
AddTag(entries, tag) ==
  IF \E k \in 1..Len(entries) : entries[k][1] = tag
    THEN [k \in 1..Len(entries) |->
            IF entries[k][1] = tag THEN <<tag, entries[k][2] + 1>>
            ELSE entries[k]]
    ELSE Append(entries, <<tag, 1>>)

RECURSIVE AddTags(_, _)
AddTags(entries, tags) ==
  IF tags = <<>> THEN entries
  ELSE AddTags(AddTag(entries, Head(tags)), Tail(tags))

RECURSIVE CountTags(_, _)
CountTags(stories, entries) ==
  IF stories = <<>> THEN entries
  ELSE CountTags(Tail(stories), AddTags(entries, Head(stories).tags))

tagCounts_all(stories, selSources) == CountTags(stories, <<>>)

tagCounts(stories, selSources) ==
  CountTags(storiesFilteredBySource(stories, selSources), <<>>)

\* (a, b) => b[1] - a[1] on [tag, count] entries
CompareCount(a, b) == b[2] - a[2]

\* Object.entries(tagCounts).sort(comparator), a stable sort
RECURSIVE InsertEntry(_, _)
InsertEntry(s, x) ==
  IF s = <<>> THEN <<x>>
  ELSE IF CompareCount(Head(s), x) > 0 THEN <<x>> \o s
  ELSE <<Head(s)>> \o InsertEntry(Tail(s), x)

RECURSIVE SortEntries(_)
SortEntries(s) ==
  IF s = <<>> THEN <<>>
  ELSE InsertEntry(SortEntries(SubSeq(s, 1, Len(s) - 1)), s[Len(s)])

sortedTags(stories, selSources) == SortEntries(tagCounts(stories, selSources))

SomeTagSelected_every(story, selTags) ==
  \A i \in 1..Len(selTags) : Includes(story.tags, selTags[i])

\* story.tags.some(tag => selectedTags.includes(tag))
SomeTagSelected(story, selTags) ==
  \E i \in 1..Len(story.tags) : Includes(selTags, story.tags[i])

finalFilteredStories(stories, selSources, selTags) ==
  SelectSeq(storiesFilteredBySource(stories, selSources),
            LAMBDA story : Len(selTags) = 0 \/ SomeTagSelected(story, selTags))

-----------------------------------------------------------------------------
(* Spec: the App, its load cycles and its filter handlers *)

S_HN1 == MapHN(HNItem(1))
S_F1 == MapItem(BLOG_FEEDS[1], E_LINK)

\* what fetchAllContent hands to a cycle
AppBatches == SeqsUpTo({S_HN1, S_F1}, MaxBatch)

Ann(id, score, tags) ==
  [t |-> "obj", id |-> id, aiSummary |-> "S", aiAbstract |-> "A",
   relevanceScore |-> score, recommendationReason |-> "R", tags |-> tags]

AppAnnPool ==
  {Ann(S_HN1.id, 90, <<"x", "y">>), Ann(S_HN1.id, 50, <<"y">>),
   Ann(S_F1.id, 50, <<"y">>), Ann(S_F1.id, 90, <<"x">>)}

\* the service answers with at most one annotation per story, in batch order
AppAnnLists ==
  {s \in SeqsUpTo(AppAnnPool, MaxAnn) :
     \A i, j \in 1..Len(s) :
       i < j => (s[i].id = S_HN1.id /\ s[j].id = S_F1.id)}

AppResponses ==
  {[kind |-> "throw"]}
  \cup {[kind |-> "json", value |-> [t |-> "array", items |-> s]]
          : s \in AppAnnLists}

Idle == [pc |-> "idle"]

InFlight(c) == cycles[c].pc # "idle"

\* history: what cycle c leaves behind when it completes; `alone` tells that
\* no cycle was in flight when it started, `raced` that one was in flight at
\* some time of its run, `count` how many raw stories it aggregated
Settled(c, raw, stored, result) ==
  [c |-> c, alone |-> cycles[c].alone, raced |-> cycles[c].raced,
   count |-> Len(raw), stored |-> stored, result |-> result]

\* the state after the first render and its effects: the mount effect has
\* called loadDigest
AppStart ==
  /\ loading = TRUE
  /\ enrichedStories = <<>>
  /\ selectedSources = ALL_SOURCES_CONFIG
  /\ selectedTags = <<>>
  /\ cycles = [c \in 1..MaxCycles |->
                 IF c = 1
                   THEN [pc |-> "fetch", prefs |-> preferences,
                         alone |-> TRUE, raced |-> FALSE]
                   ELSE Idle]
  /\ last = [op |-> "none"]
  /\ settled = [c |-> 0]

Init ==
  /\ EnrichIdle
  /\ AggIdle
  /\ IdIdle
  /\ PrefIdle
  /\ AppStart

\* loadDigest up to `await fetchAllContent()`, run in the free slot c; the
\* callback closes over the preferences of the render it was created in
loadDigest(c) ==
  /\ cycles[c].pc = "idle"
  /\ \A d \in 1..(c - 1) : cycles[d].pc # "idle"
  /\ loading' = TRUE
  /\ enrichedStories' = <<>>
  /\ cycles' = [d \in 1..MaxCycles |->
                  IF d = c
                    THEN [pc |-> "fetch", prefs |-> preferences,
                          alone |-> \A e \in 1..MaxCycles : ~InFlight(e),
                          raced |-> \E e \in 1..MaxCycles : InFlight(e)]
                  ELSE IF InFlight(d) THEN [cycles[d] EXCEPT !.raced = TRUE]
                  ELSE cycles[d]]
  /\ settled' = [c |-> 0]
  /\ UNCHANGED <<selectedSources, selectedTags>>
  /\ last' = [op |-> "none"]
  /\ UNCHANGED <<enrichVars, aggVars, prefVars, idVars>>

PrefsArg_current(cycle) == preferences

\* the `preferences` argument of analyzeStories(rawStories, preferences)
PrefsArg(cycle) == cycle.prefs

SetEnriched_append(prev, analyzed) == prev \o analyzed

\* setEnrichedStories(analyzed)
SetEnriched(prev, analyzed) == analyzed

\* fetchAllContent resolves and loadDigest calls analyzeStories, which returns
\* [] at once (the cycle runs to its end), throws while it builds the prompt
\* (the cycle runs to its end through catch and finally), or calls the
\* reasoning service
FetchSettle(c, batches) ==
  /\ cycles[c].pc = "fetch"
  /\ \E rawStories \in batches :
       IF Len(rawStories) = 0
         THEN LET analyzed == analyzeStories(rawStories, [kind |-> "throw"])
              IN /\ enrichedStories' = SetEnriched(enrichedStories, analyzed)
                 /\ loading' = FALSE
                 /\ cycles' = [cycles EXCEPT ![c] = Idle]
                 /\ settled' = Settled(c, rawStories, TRUE, analyzed)
       ELSE IF PromptThrows(PrefsArg(cycles[c]))
         THEN /\ UNCHANGED enrichedStories
              /\ loading' = FALSE
              /\ cycles' = [cycles EXCEPT ![c] = Idle]
              /\ settled' = Settled(c, rawStories, FALSE, <<>>)
         ELSE /\ cycles' = [cycles EXCEPT
                              ![c] = [pc |-> "analyze",
                                      prefs |-> cycles[c].prefs,
                                      alone |-> cycles[c].alone,
                                      raced |-> cycles[c].raced,
                                      raw |-> rawStories,
                                      arg |-> PrefsArg(cycles[c])]]
              /\ UNCHANGED <<enrichedStories, loading, settled>>
  /\ UNCHANGED <<selectedSources, selectedTags>>
  /\ last' = [op |-> "none"]
  /\ UNCHANGED <<enrichVars, aggVars, prefVars, idVars>>

\* the reasoning service settles; loadDigest runs to its end
AnalyzeSettle(c, responses) ==
  /\ cycles[c].pc = "analyze"
  /\ \E resp \in responses :
       LET analyzed == analyzeStories(cycles[c].raw, resp)
       IN /\ enrichedStories' = SetEnriched(enrichedStories, analyzed)
          /\ settled' = Settled(c, cycles[c].raw, TRUE, analyzed)
  /\ loading' = FALSE
  /\ cycles' = [cycles EXCEPT ![c] = Idle]
  /\ UNCHANGED <<selectedSources, selectedTags>>
  /\ last' = [op |-> "none"]
  /\ UNCHANGED <<enrichVars, aggVars, prefVars, idVars>>

\* the header's refresh button (shown from the `sm` breakpoint up), which is
\* disabled while loading
DesktopRefresh(c) ==
  /\ ~loading
  /\ loadDigest(c)

\* the floating refresh button (shown below the `sm` breakpoint), which is
\* never disabled
MobileRefresh(c) == loadDigest(c)

Palette == sortedTags(enrichedStories, selectedSources)

FilterFrame ==
  /\ UNCHANGED <<loading, enrichedStories, cycles, settled>>
  /\ UNCHANGED <<enrichVars, aggVars, prefVars, idVars>>

toggleSource(sourceName) ==
  /\ selectedSources' = Toggled(selectedSources, sourceName)
  /\ UNCHANGED selectedTags
  /\ last' = [op |-> "none"]
  /\ FilterFrame

\* the tag chips are those of the palette
toggleTag(tag) ==
  /\ \E k \in 1..Len(Palette) : Palette[k][1] = tag
  /\ selectedTags' = Toggled(selectedTags, tag)
  /\ UNCHANGED selectedSources
  /\ last' = [op |-> "none"]
  /\ FilterFrame

handleSoloTag(tag) ==
  /\ \E k \in 1..Len(Palette) : Palette[k][1] = tag
  /\ selectedTags' = <<tag>>
  /\ UNCHANGED selectedSources
  /\ last' = [op |-> "none"]
  /\ FilterFrame

handleSoloSource(sourceName) ==
  /\ selectedSources' = <<sourceName>>
  /\ UNCHANGED selectedTags
  /\ last' = [op |-> "none"]
  /\ FilterFrame

handleSelectAllSources ==
  /\ selectedSources' = ALL_SOURCES_CONFIG
  /\ UNCHANGED selectedTags
  /\ last' = [op |-> "none"]
  /\ FilterFrame

handleInvertSourceSelection ==
  /\ selectedSources' = Inverted(ALL_SOURCES_CONFIG, selectedSources)
  /\ last' = [op |-> "invert", prevSources |-> selectedSources]
  /\ UNCHANGED selectedTags
  /\ FilterFrame

\* both "clear" buttons are rendered only while a tag is selected
handleClearTags ==
  /\ Len(selectedTags) > 0
  /\ selectedTags' = <<>>
  /\ UNCHANGED selectedSources
  /\ last' = [op |-> "none"]
  /\ FilterFrame

Tags == {"x", "y"}

Next ==
  \/ \E c \in 1..MaxCycles : DesktopRefresh(c)
  \/ \E c \in 1..MaxCycles : FetchSettle(c, AppBatches)
  \/ \E c \in 1..MaxCycles : AnalyzeSettle(c, AppResponses)
  \/ \E n \in Range(ALL_SOURCES_CONFIG) : toggleSource(n)
  \/ \E n \in Range(ALL_SOURCES_CONFIG) : handleSoloSource(n)
  \/ handleSelectAllSources
  \/ handleInvertSourceSelection
  \/ \E t \in Tags : toggleTag(t)
  \/ \E t \in Tags : handleSoloTag(t)
  \/ handleClearTags

Spec == Init /\ [][Next]_vars

-----------------------------------------------------------------------------
(* SpecLoad: load cycles started from either refresh button, racing *)

LoadBatches == AppBatches

LoadResponses ==
  {[kind |-> "throw"],
   [kind |-> "json",
    value |-> [t |-> "array",
               items |-> <<Ann(S_HN1.id, 90, <<"x">>),
                           Ann(S_F1.id, 50, <<"y">>)>>]]}

NextLoad ==
  \/ \E c \in 1..MaxCycles : MobileRefresh(c)
  \/ \E c \in 1..MaxCycles : DesktopRefresh(c)
  \/ \E c \in 1..MaxCycles : FetchSettle(c, LoadBatches)
  \/ \E c \in 1..MaxCycles : AnalyzeSettle(c, LoadResponses)

SpecLoad == Init /\ [][NextLoad]_vars

-----------------------------------------------------------------------------
(* SpecPrefs: feedback, refinement and direct edits around the load cycles *)

\* the cards rendered are those of finalFilteredStories; a card's buttons
\* are disabled once feedbackMap holds its id
handleFeedback(id, type) ==
  /\ \E k \in 1..Len(enrichedStories) :
       /\ enrichedStories[k].id = id
       /\ enrichedStories[k]
            \in Range(finalFilteredStories(enrichedStories, selectedSources,
                                           selectedTags))
  /\ String(id) \notin DOMAIN feedbackMap
  /\ feedbackMap' = [k \in {String(id)} |-> type] @@ feedbackMap
  /\ isLearning' = TRUE
  /\ refining' = refining \cup
                   {[id |-> id,
                     currentContext |-> preferences.additionalContext]}
  /\ UNCHANGED preferences
  /\ last' = [op |-> "none"]
  /\ UNCHANGED <<loading, enrichedStories, selectedSources, selectedTags,
                 cycles, settled>>
  /\ UNCHANGED <<enrichVars, aggVars, idVars>>

PrefsFrame ==
  /\ UNCHANGED <<loading, enrichedStories, selectedSources, selectedTags,
                 cycles, settled>>
  /\ UNCHANGED <<enrichVars, aggVars, idVars>>

\* the refinePreferences call of one feedback event settles and
\* handleFeedback runs to its end
RefineSettle(call) ==
  /\ call \in refining
  /\ \E out \in RefineOutcomes :
       LET newContext == refinePreferences(call.currentContext, out)
       IN /\ preferences' = With(preferences, "additionalContext", newContext)
          /\ last' = [op |-> "refine", failed |-> out.kind = "throw",
                      before |-> preferences]
  /\ isLearning' = FALSE
  /\ refining' = refining \ {call}
  /\ UNCHANGED feedbackMap
  /\ PrefsFrame

\* PreferencePanel: the save button, with the text of the textarea
handleSave(localContext) ==
  /\ preferences' = With(preferences, "additionalContext", localContext)
  /\ UNCHANGED <<feedbackMap, isLearning, refining>>
  /\ last' = [op |-> "none"]
  /\ PrefsFrame

addTopic(newTopic) ==
  /\ newTopic # ""
  /\ ~Includes(preferences.topics, newTopic)
  /\ preferences' = With(preferences, "topics",
                         Append(preferences.topics, newTopic))
  /\ UNCHANGED <<feedbackMap, isLearning, refining>>
  /\ last' = [op |-> "none"]
  /\ PrefsFrame

removeTopic(topic) ==
  /\ Includes(preferences.topics, topic)
  /\ preferences' = With(preferences, "topics",
                         SelectSeq(preferences.topics, LAMBDA t : t # topic))
  /\ UNCHANGED <<feedbackMap, isLearning, refining>>
  /\ last' = [op |-> "none"]
  /\ PrefsFrame

PrefBatches == {<<>>, <<S_HN1, S_F1>>}

TypedContexts == {"ctx-typed"}
TypedTopics == {"t"}

InitPrefs ==
  /\ EnrichIdle
  /\ AggIdle
  /\ IdIdle
  /\ \E saved \in StoredValues : preferences = InitialPreferences(saved)
  /\ feedbackMap = <<>>
  /\ isLearning = FALSE
  /\ refining = {}
  /\ AppStart

NextPrefs ==
  \/ \E c \in 1..MaxCycles : DesktopRefresh(c)
  \/ \E c \in 1..MaxCycles : FetchSettle(c, PrefBatches)
  \/ \E c \in 1..MaxCycles : AnalyzeSettle(c, LoadResponses)
  \/ \E id \in {S_HN1.id, S_F1.id}, type \in {"liked", "disliked"} :
       handleFeedback(id, type)
  \/ \E call \in refining : RefineSettle(call)
  \/ \E ctx \in TypedContexts : handleSave(ctx)
  \/ \E t \in TypedTopics : addTopic(t)
  \/ \E t \in Range(preferences.topics) : removeTopic(t)

SpecPrefs == InitPrefs /\ [][NextPrefs]_vars

-----------------------------------------------------------------------------
(* Properties of analyzeStories *)

AnnFields ==
  {"aiSummary", "aiAbstract", "relevanceScore", "recommendationReason", "tags"}

\* the RawStory part of an EnrichedStory
Raw(r) == [f \in DOMAIN r \ AnnFields |-> r[f]]

Count(s, P(_)) == Cardinality({i \in 1..Len(s) : P(s[i])})

\* every input story occurs in the output as often as in the input
KeepsEveryStory(input, output) ==
  \A i \in 1..Len(input) :
    LET Same(x) == Raw(x) = input[i]
    IN Count(output, Same) = Count(input, Same)

WholeCallFailure == ThrowsBeforeMerge(an_response)

\* C1: whatever the reasoning service does (full or partial response, empty
\* text, unparsable text, a parsed value that is not an array of objects, a
\* thrown error), analyzeStories returns as many items as it was given.
C1_LengthPreserved ==
  an_pc = "done" => Len(an_result) = Len(an_stories)

C1_Witness ==
  /\ an_pc = "done"
  /\ Len(an_stories) = 2
  /\ an_response.kind = "json"
  /\ an_response.value.t = "array"
  /\ Null \in Range(an_response.value.items)
  /\ Len(an_result) = 2

\* C2: on the success path and on the fallback path alike the returned list
\* is ordered by relevanceScore non-increasing.
C2_SortedByRelevance ==
  an_pc = "done" =>
    \A i \in 1..(Len(an_result) - 1) :
      an_result[i].relevanceScore >= an_result[i + 1].relevanceScore

C2_Witness ==
  /\ an_pc = "done"
  /\ Len(an_stories) = 2
  /\ ~WholeCallFailure
  /\ Raw(an_result[1]) = an_stories[2]
  /\ an_result[1].relevanceScore > an_result[2].relevanceScore
  /\ an_result[2].relevanceScore = DEFAULT_SCORE

\* C3: when the call fails as a whole (it throws, returns no text, or its
\* text cannot be parsed) every input story is in the output with
\* relevanceScore 0, no tags and the same "analysis unavailable" texts.
C3_WholeCallFallback ==
  (an_pc = "done" /\ WholeCallFailure) =>
    /\ KeepsEveryStory(an_stories, an_result)
    /\ Len(an_result) = Len(an_stories)
    /\ \A i \in 1..Len(an_result) :
         /\ an_result[i].relevanceScore = 0
         /\ an_result[i].tags = <<>>
         /\ an_result[i].aiSummary = FB_SUMMARY
         /\ an_result[i].aiAbstract = FB_ABSTRACT
         /\ an_result[i].recommendationReason = FB_REASON

C3_Witness ==
  /\ an_pc = "done"
  /\ an_response.kind = "unparsable"
  /\ Len(an_stories) = 2
  /\ an_stories[1] # an_stories[2]
  /\ an_result[2].aiSummary = FB_SUMMARY

\* the service answered with an array of annotation objects
AnnotationsOnly ==
  /\ an_response.kind = "json"
  /\ an_response.value.t = "array"
  /\ \A k \in 1..Len(an_response.value.items) :
       an_response.value.items[k].t = "obj"

\* some annotation's string-coerced id equals the story's string-coerced id
Annotated(story) ==
  \E k \in 1..Len(an_response.value.items) :
    StringOfId(an_response.value.items[k]) = String(story.id)

\* C4: when the service annotates only some input ids, every story without
\* an annotation of the same string-coerced id is still in the output, with
\* relevanceScore 10 and no tags, and the annotated stories come out as they
\* do when the batch holds only them.
C4_PartialAnnotation ==
  (an_pc = "done" /\ AnnotationsOnly) =>
    /\ KeepsEveryStory(an_stories, an_result)
    /\ \A i \in 1..Len(an_result) :
         ~Annotated(Raw(an_result[i])) =>
           /\ an_result[i].relevanceScore = 10
           /\ an_result[i].tags = <<>>
    /\ SelectSeq(an_result, LAMBDA r : Annotated(Raw(r)))
         = analyzeStories(SelectSeq(an_stories, Annotated), an_response)

C4_Witness ==
  /\ an_pc = "done"
  /\ AnnotationsOnly
  /\ Len(an_stories) = 2
  /\ an_stories[1].id = Id_a
  /\ an_stories[2].id = Id_n1
  /\ ~Annotated(an_stories[1])
  /\ Annotated(an_stories[2])
  /\ \E k \in 1..Len(an_response.value.items) :
       an_response.value.items[k].id = Id_s1
  /\ an_result[1].relevanceScore = 50
  /\ an_result[2].relevanceScore = 10
  /\ an_result[2].tags = <<>>

\* C19: on the merge path and on the fallback path the output holds every
\* input story exactly once and nothing else, and each item has the id,
\* title, url, source, author, publishDate and score of its input story.
C19_RawFieldsKept ==
  an_pc = "done" =>
    /\ Len(an_result) = Len(an_stories)
    /\ KeepsEveryStory(an_stories, an_result)
    /\ \A i \in 1..Len(an_result) : Raw(an_result[i]) \in Range(an_stories)

\* stories "1" and 1 with annotations for the unknown id "a" and for 1: both
\* stories take the second annotation and keep their own ids
C19_Witness ==
  /\ an_pc = "done"
  /\ AnnotationsOnly
  /\ Len(an_stories) = 2
  /\ an_stories[1].id = Id_s1
  /\ an_stories[2].id = Id_n1
  /\ Len(an_response.value.items) = 2
  /\ \A k \in 1..2 : "id" \in DOMAIN an_response.value.items[k]
  /\ an_response.value.items[1].id = Id_a
  /\ an_response.value.items[2].id = Id_n1
  /\ an_result[1].relevanceScore = 50
  /\ an_result[2].relevanceScore = 50
  /\ Raw(an_result[1]) = an_stories[1]
  /\ Raw(an_result[2]) = an_stories[2]

\* an annotation object with the id and the five annotation fields
CompleteAnn(a) == AnnFields \cup {"id"} \subseteq DOMAIN a

\* C20: a story whose annotation is present and complete carries exactly the
\* annotation's values, its relevanceScore included.
C20_AnnotationValuesKept ==
  (an_pc = "done" /\ AnnotationsOnly) =>
    \A i \in 1..Len(an_result) :
      LET k == Find(an_response.value.items, Raw(an_result[i]))
      IN (k > 0 /\ CompleteAnn(an_response.value.items[k])) =>
           \A f \in AnnFields :
             an_result[i][f] = an_response.value.items[k][f]

-----------------------------------------------------------------------------
(* Properties of the aggregator and its adapters *)

RECURSIVE SumLen(_)
SumLen(lists) ==
  IF lists = <<>> THEN 0 ELSE Len(Head(lists)) + SumLen(Tail(lists))

FromSource(list, name) == Count(list, LAMBDA x : x.source = name)

\* C5: whatever each adapter's outcome, the list fetchAllContent returns is
\* as long as the adapters' lists together, and it holds every adapter's
\* stories: a failed adapter takes nothing away from the others.
C5_AggregationKeepsAll ==
  agg_promise.st # "pending" =>
    /\ agg_promise.st = "fulfilled"
    /\ Len(agg_promise.v) =
         Len(hn_promise.v) + SumLen([f \in 1..NumFeeds |-> rss_promise[f].v])
    /\ FromSource(agg_promise.v, HN_NAME) = Len(hn_promise.v)
    /\ \A f \in 1..NumFeeds :
         FromSource(agg_promise.v, BLOG_FEEDS[f].name) = Len(rss_promise[f].v)

C5_Witness ==
  /\ agg_promise.st = "fulfilled"
  /\ rss_failed[1]
  /\ Len(rss_promise[2].v) = 2
  /\ Len(hn_promise.v) = 1
  /\ Len(agg_promise.v) = 3
  /\ agg_promise.v[1].source = HN_NAME

\* C6: no adapter rejects: on every failure of a network call, of parsing or
\* of mapping (a non-ok status, non-array items, an entry with neither link
\* nor title) fetchHNStories and fetchRSSFeed resolve with the empty list.
C6_AdaptersNeverReject ==
  /\ hn_promise.st # "rejected"
  /\ hn_failed # "no" => hn_promise = Fulfilled(<<>>)
  /\ hn_pc = "done" => hn_promise.st = "fulfilled"
  /\ \A f \in 1..Len(rss_promise) :
       /\ rss_promise[f].st # "rejected"
       /\ rss_failed[f] => rss_promise[f] = Fulfilled(<<>>)

C6_Witness ==
  /\ hn_failed = "mapping"
  /\ hn_promise = Fulfilled(<<>>)
  /\ rss_failed[1]
  /\ rss_promise[1] = Fulfilled(<<>>)
  /\ rss_promise[2].st = "fulfilled"
  /\ Len(rss_promise[2].v) = 1

\* C13: the stories of one aggregated batch have pairwise distinct ids.
C13_BatchIdsDistinct ==
  agg_promise.st = "fulfilled" =>
    \A i, j \in 1..Len(agg_promise.v) :
      i # j => agg_promise.v[i].id # agg_promise.v[j].id

\* the detail fetches that failed, and the items the others delivered
DetailFailed == \E j \in 1..Len(hn_det) : hn_det[j].st = "rejected"

AllFetched ==
  /\ hn_failed # "fetch"
  /\ \A j \in 1..Len(hn_det) : hn_det[j].st = "fulfilled"

StoryWithUrl(j) ==
  /\ hn_det[j].st = "fulfilled"
  /\ hn_det[j].v.t = "obj"
  /\ hn_det[j].v.type = "story"
  /\ "url" \in DOMAIN hn_det[j].v

\* the positions of the fetched stories with a url, in the order of the id list
RECURSIVE WantedFrom(_)
WantedFrom(j) ==
  IF j > Len(hn_det) THEN <<>>
  ELSE IF StoryWithUrl(j) THEN <<j>> \o WantedFrom(j + 1)
  ELSE WantedFrom(j + 1)

Wanted == WantedFrom(1)

\* the returned list is the wanted items, one RawStory each, in order
ReturnsWanted ==
  /\ hn_promise.st = "fulfilled"
  /\ Len(hn_promise.v) = Len(Wanted)
  /\ Len(hn_promise.v) <= hn_limit
  /\ \A k \in 1..Len(Wanted) :
       LET s == hn_det[Wanted[k]].v
           r == hn_promise.v[k]
       IN /\ r.id = <<"str", "hn-" \o ToString(s.id)>>
          /\ r.url = s.url
          /\ r.source = HN_NAME

\* the id list settles before any detail fetch is issued, and no more than
\* `limit` detail fetches are issued
IdsBeforeDetails ==
  /\ hn_pc = "ids" => hn_det = <<>> /\ hn_promise = Pending
  /\ Len(hn_det) <= hn_limit

FetchFailureGivesNothing ==
  (hn_pc = "done" /\ (hn_failed = "fetch" \/ DetailFailed)) =>
    hn_promise = Fulfilled(<<>>)

\* C22 as stated: the id list is fetched before the details; a failure of the
\* id-list fetch or of any detail fetch makes fetchHNStories return the empty
\* list; when every fetch succeeds it returns exactly the fetched items that
\* are stories with a url, at most `limit` of them.
C22_AllFetchedReturnsStories ==
  /\ IdsBeforeDetails
  /\ FetchFailureGivesNothing
  /\ (hn_pc = "done" /\ AllFetched) => ReturnsWanted

NoTime(j) == "time" \notin DOMAIN hn_det[j].v

\* C22 as amended: as above, except that when every fetch succeeds and a
\* fetched story with a url has no publish time to convert, the empty list is
\* returned as well; otherwise the stories with a url are returned, each with
\* its time as an ISO instant.
C22_AllOrNothing ==
  /\ IdsBeforeDetails
  /\ FetchFailureGivesNothing
  /\ (hn_pc = "done" /\ AllFetched) =>
       IF \E k \in 1..Len(Wanted) : NoTime(Wanted[k])
         THEN hn_promise = Fulfilled(<<>>)
         ELSE /\ ReturnsWanted
              /\ \A k \in 1..Len(Wanted) :
                   hn_promise.v[k].publishDate =
                     ToISOString(hn_det[Wanted[k]].v.time * 1000)

\* the detail fetch of the second id failed after the first had delivered a
\* story with a url, and nothing was returned
C22_Witness ==
  /\ hn_pc = "done"
  /\ hn_limit = HN_LIMIT
  /\ Len(hn_det) = 2
  /\ StoryWithUrl(1)
  /\ ~NoTime(1)
  /\ hn_det[2].st = "rejected"
  /\ hn_promise = Fulfilled(<<>>)

-----------------------------------------------------------------------------
(* Properties of the filter engine *)

Visible == finalFilteredStories(enrichedStories, selectedSources, selectedTags)

SourceSelected(story) == story.source \in Range(selectedSources)

\* C7: the visible list is exactly the enriched stories, in order, whose
\* source is selected and that, unless no tag is selected, carry at least one
\* selected tag.
C7_VisibleStories ==
  Visible =
    SelectSeq(enrichedStories,
              LAMBDA s : /\ SourceSelected(s)
                         /\ \/ Range(selectedTags) = {}
                            \/ Range(s.tags) \cap Range(selectedTags) # {})

\* stories a{x,y} and b{y}, every source selected, tag x selected: only a
C7_Witness ==
  /\ Len(enrichedStories) = 2
  /\ enrichedStories[1].tags = <<"x", "y">>
  /\ enrichedStories[2].tags = <<"y">>
  /\ Range(selectedSources) = Range(ALL_SOURCES_CONFIG)
  /\ selectedTags = <<"x">>
  /\ Visible = <<enrichedStories[1]>>

\* occurrences of a tag over the stories of the selected sources
Occurrences(tag) ==
  Cardinality({p \in (1..Len(enrichedStories)) \X (1..MaxAnn + 2) :
                 /\ SourceSelected(enrichedStories[p[1]])
                 /\ p[2] <= Len(enrichedStories[p[1]].tags)
                 /\ enrichedStories[p[1]].tags[p[2]] = tag})

\* (Occurrences does not read selectedTags)
PaletteCountsRight ==
  /\ \A k \in 1..Len(Palette) : Palette[k][2] = Occurrences(Palette[k][1])
  /\ \A j, k \in 1..Len(Palette) : j # k => Palette[j][1] # Palette[k][1]
  /\ \A t \in Tags :
       Occurrences(t) > 0 => \E k \in 1..Len(Palette) : Palette[k][1] = t
  /\ \A k \in 1..(Len(Palette) - 1) : Palette[k][2] >= Palette[k + 1][2]

\* C8: the palette holds exactly the tags of the stories of the selected
\* sources, each with its number of occurrences over those stories, in order
\* of count non-increasing. The counts are fixed by the enriched collection
\* and selectedSources alone, so no change of selectedTags changes them.
C8_TagPalette == PaletteCountsRight

C8_Witness ==
  /\ Len(enrichedStories) = 2
  /\ enrichedStories[1].source = HN_NAME
  /\ enrichedStories[1].tags = <<"x", "y">>
  /\ enrichedStories[2].tags = <<"y">>
  /\ selectedSources = <<HN_NAME>>
  /\ selectedTags = <<"y">>
  /\ Palette = << <<"x", 1>>, <<"y", 1>> >>

\* C9: for every registered source the count is the number of stories of
\* that source in the whole enriched collection, and no step that changes a
\* selection changes a count.
C9_SourceCounts ==
  /\ [](/\ DOMAIN sourceCounts(enrichedStories) = Range(ALL_SOURCES_CONFIG)
        /\ \A n \in Range(ALL_SOURCES_CONFIG) :
             sourceCounts(enrichedStories)[n] =
               Cardinality({i \in 1..Len(enrichedStories) :
                              enrichedStories[i].source = n}))
  /\ [][(selectedSources' # selectedSources \/ selectedTags' # selectedTags)
        => sourceCounts(enrichedStories)' = sourceCounts(enrichedStories)]_vars

C9_Witness ==
  /\ Len(enrichedStories) = 2
  /\ sourceCounts(enrichedStories)[HN_NAME] = 2
  /\ sourceCounts(enrichedStories)[BLOG_FEEDS[1].name] = 0
  /\ selectedSources = <<BLOG_FEEDS[1].name>>
  /\ selectedTags = <<"y">>

\* C10: invertSources leaves selected exactly the registered sources that
\* were not selected, whether or not they have stories.
C10_InvertIsComplement ==
  last.op = "invert" =>
    Range(selectedSources)
      = Range(ALL_SOURCES_CONFIG) \ Range(last.prevSources)

C10_Witness ==
  /\ last.op = "invert"
  /\ last.prevSources = <<HN_NAME>>
  /\ Range(selectedSources) = Range(ALL_SOURCES_CONFIG) \ {HN_NAME}
  /\ Len(enrichedStories) > 0
  /\ sourceCounts(enrichedStories)[BLOG_FEEDS[2].name] = 0
  /\ BLOG_FEEDS[2].name \in Range(selectedSources)

\* the step flips v in the selection `sel` and keeps every other value of
\* `universe` as it was
FlipsOnly(sel, selNext, v, universe) ==
  /\ (v \in Range(selNext)) <=> (v \notin Range(sel))
  /\ \A w \in universe \ {v} : (w \in Range(selNext)) <=> (w \in Range(sel))

\* C11: toggleSource(name) and toggleTag(tag) flip the membership of the given
\* value in their own selection and of no other value, leave the other
\* selection and the enriched collection unchanged, and toggling the same
\* value twice gives back the selection as a set.
C11_ToggleFlips ==
  /\ [][\A n \in Range(ALL_SOURCES_CONFIG) :
          toggleSource(n) =>
            /\ FlipsOnly(selectedSources, selectedSources', n,
                         Range(ALL_SOURCES_CONFIG))
            /\ selectedTags' = selectedTags
            /\ enrichedStories' = enrichedStories]_vars
  /\ [][\A t \in Tags :
          toggleTag(t) =>
            /\ FlipsOnly(selectedTags, selectedTags', t, Tags)
            /\ selectedSources' = selectedSources
            /\ enrichedStories' = enrichedStories]_vars
  /\ [](\A n \in Range(ALL_SOURCES_CONFIG) :
          Range(Toggled(Toggled(selectedSources, n), n))
            = Range(selectedSources))
  /\ [](\A t \in Tags :
          Range(Toggled(Toggled(selectedTags, t), t)) = Range(selectedTags))

\* only toggleSource gives this order: the first feed was toggled off and on
\* again; tag y is selected
C11_Witness ==
  /\ selectedSources
       = SelectSeq(ALL_SOURCES_CONFIG, LAMBDA n : n # BLOG_FEEDS[1].name)
           \o <<BLOG_FEEDS[1].name>>
  /\ selectedTags = <<"y">>
  /\ Len(enrichedStories) = 2
  /\ enrichedStories[1].tags = <<"x">>
  /\ enrichedStories[2].tags = <<>>

-----------------------------------------------------------------------------
(* Properties of generateId *)

\* C12: for a non-empty string every call with the same prefix returns the
\* same token, and calls with two different prefixes return different tokens.
C12_IdStableAndPrefixed ==
  Len(id_str) > 0 =>
    \A i, j \in 1..Len(id_out) :
      /\ id_out[i][1] = id_out[j][1]
      /\ id_prefix # id_prefix2 => id_out[i][1] # id_out[j][2]

\* "Aa" under the prefixes "rss" and "rss-", called twice
C12_Witness ==
  /\ id_str = Str_Aa
  /\ id_prefix = "rss"
  /\ id_prefix2 = "rss-"
  /\ Len(id_out) = 2
  /\ id_out[1] = <<"rss-840", "rss--840">>
  /\ id_out[2] = id_out[1]

-----------------------------------------------------------------------------
(* Properties of the load cycles *)

AllSettled == \A c \in 1..MaxCycles : ~InFlight(c)

\* C14: once every cycle of a group of overlapping cycles has settled, the
\* enriched collection is the whole result of the cycle that settled last,
\* whichever of them started last.
C14_LastSettledWins ==
  (AllSettled /\ settled.c # 0 /\ settled.raced) =>
    /\ settled.stored
    /\ enrichedStories = settled.result

\* the cycle that started first settled last, with an annotated story
C14_Witness ==
  /\ AllSettled
  /\ settled.c # 0
  /\ settled.raced
  /\ settled.alone
  /\ settled.count = 1
  /\ enrichedStories = settled.result
  /\ enrichedStories[1].relevanceScore = 90

\* C21: the loading flag is true in every state in which at least one load
\* cycle is in flight, also when a second cycle was started from the mobile
\* refresh button while the first was outstanding and the two settle at
\* different times.
C21_LoadingWhileInFlight ==
  (\E c \in 1..MaxCycles : InFlight(c)) => loading

-----------------------------------------------------------------------------
(* Properties of the preferences *)

\* C15: when the profile-rewrite call of a feedback event fails, the
\* preferences after handleFeedback are what they were just before the call
\* returned, additionalContext included.
C15_FailedRefineKeepsContext ==
  (last.op = "refine" /\ last.failed) =>
    /\ preferences.additionalContext = last.before.additionalContext
    /\ preferences = last.before

PrefFields ==
  {"topics", "blockedKeywords", "complexityLevel", "tone", "additionalContext"}

\* C16: the preferences are always a complete object.
C16_PreferencesComplete == DOMAIN preferences = PrefFields

\* C17: a cycle hands to analyzeStories the preferences that were current
\* when it was started, whatever the refiner or a direct edit has stored
\* since; a change of the preferences starts no cycle and leaves the cycles
\* in flight, the loading flag and the enriched collection as they are; and
\* a cycle that starts takes the preferences of that moment.
C17_CycleKeepsItsPreferences ==
  /\ [](\A c \in 1..MaxCycles :
          cycles[c].pc = "analyze" => cycles[c].arg = cycles[c].prefs)
  /\ [][preferences' # preferences =>
          /\ cycles' = cycles
          /\ loading' = loading
          /\ enrichedStories' = enrichedStories]_vars
  /\ [][\A c \in 1..MaxCycles :
          (~InFlight(c) /\ InFlight(c)') => cycles'[c].prefs = preferences]_vars

\* the refiner rewrote the context while cycle 1 was fetching; the cycle
\* calls the reasoning service with the context of its start
C17_Witness ==
  /\ cycles[1].pc = "analyze"
  /\ cycles[1].arg.additionalContext = "ctx-default"
  /\ cycles[1].arg = cycles[1].prefs
  /\ preferences.additionalContext = "ctx-refined"
  /\ last.op = "refine"

\* C18: a cycle that has completed has set loading to false and has set the
\* enriched collection to one enriched item per aggregated raw story.
C18_CycleCompletes ==
  settled.c # 0 =>
    /\ ~loading
    /\ settled.stored
    /\ Len(enrichedStories) = settled.count

====
